---- MODULE Spec2Model ----
(***************************************************************************)
(* Model of src/src/app_launcher.rs: descriptor parsing, the application   *)
(* index, substring search, recent-apps seeding, launch and the session    *)
(* controller (AppLauncher).                                               *)
(*                                                                         *)
(* Strings are sequences of one-character strings, so that trimming,       *)
(* prefix tests, slicing, substring removal and lowercasing are computed   *)
(* character by character as the standard library does.                    *)
(* Option<T> is a sequence of length 0 (None) or 1 (Some(v)).              *)
(***************************************************************************)
EXTENDS Integers, Sequences, FiniteSets, TLC

VARIABLES
    phase,          \* position of the program: which operation ran last
    content,        \* the descriptor file given to parse_desktop_entry
    parsed,         \* Option<(String, String)> returned by parse_desktop_entry
    files,          \* get_desktop_entries(): the located descriptor files still to
                    \* be parsed, by content, in discovery order
    recent_apps,    \* RECENT_APPS_CACHE.recent_apps
    config,         \* AppLauncher.config
    applications,   \* AppLauncher.applications
    query,          \* AppLauncher.query
    search_results, \* AppLauncher.search_results
    is_quit,        \* AppLauncher.is_quit
    last_input,     \* the input event handled last
    effects,        \* external calls made by the handler that ran last, in order
    launch_result,  \* Result of the free launch_app in the handler that ran last
    history         \* [seed: search_results as built by AppLauncher::default,
                    \*  text_handled: handle_input has taken a query text]

vars == <<phase, content, parsed, files, recent_apps, config, applications,
          query, search_results, is_quit, last_input, effects, launch_result,
          history>>

(***************************************************************************)
(* Bounds                                                                  *)
(***************************************************************************)
MaxLines == 3        \* lines in a descriptor given to the parser
MaxChars == 4        \* characters after the prefixes, summed over a descriptor
MaxApps == 3         \* entries of an index given to the search engine
MaxResults == 2      \* largest max_search_results
MaxFiles == 2        \* descriptor files located at startup
MaxRecent == 2       \* names in the persisted recent-apps list given to the seeder
MaxSessionRecent == 1 \* names in the persisted recent-apps list of a session

(***************************************************************************)
(* Strings                                                                 *)
(***************************************************************************)
None == <<>>
Some(v) == <<v>>
is_some(o) == Len(o) = 1
unwrap(o) == o[1]

Min(a, b) == IF a <= b THEN a ELSE b

UpperChars == <<"A","B","C","D","E","F","G","H","I","J","K","L","M",
                "N","O","P","Q","R","S","T","U","V","W","X","Y","Z">>
LowerChars == <<"a","b","c","d","e","f","g","h","i","j","k","l","m",
                "n","o","p","q","r","s","t","u","v","w","x","y","z">>

\* char::to_lowercase on the characters used here
LowerChar(c) ==
    IF \E i \in 1..26 : UpperChars[i] = c
    THEN LowerChars[CHOOSE i \in 1..26 : UpperChars[i] = c]
    ELSE c

\* str::to_lowercase
to_lowercase(s) == [i \in 1..Len(s) |-> LowerChar(s[i])]

\* str::starts_with
starts_with(s, prefix) ==
    /\ Len(s) >= Len(prefix)
    /\ SubSeq(s, 1, Len(prefix)) = prefix

\* the slice s[n..]
slice_from(s, n) == SubSeq(s, n + 1, Len(s))

\* str::contains: pat occurs in s as a contiguous substring
contains(s, pat) ==
    \E i \in 0..(Len(s) - Len(pat)) : SubSeq(s, i + 1, i + Len(pat)) = pat

is_whitespace(c) == c = " "

RECURSIVE trim_start(_)
trim_start(s) ==
    IF Len(s) > 0 /\ is_whitespace(s[1]) THEN trim_start(Tail(s)) ELSE s

RECURSIVE trim_end(_)
trim_end(s) ==
    IF Len(s) > 0 /\ is_whitespace(s[Len(s)])
    THEN trim_end(SubSeq(s, 1, Len(s) - 1))
    ELSE s

\* str::trim
trim(s) == trim_end(trim_start(s))

\* str::replace(pat, ""): one left-to-right pass over the non-overlapping
\* occurrences of pat; the text left of a removed occurrence is not rescanned
RECURSIVE replace(_, _)
replace(s, pat) ==
    IF Len(s) = 0 THEN <<>>
    ELSE IF starts_with(s, pat) THEN replace(slice_from(s, Len(pat)), pat)
    ELSE <<s[1]>> \o replace(Tail(s), pat)

(***************************************************************************)
(* parse_desktop_entry                                                     *)
(***************************************************************************)
NamePrefix == <<"N","a","m","e","=">>
ExecPrefix == <<"E","x","e","c","=">>

placeholders == << <<"%","f">>, <<"%","u">>, <<"%","U">>, <<"%","F">>,
                   <<"%","i">>, <<"%","c">>, <<"%","k">> >>

\* fs::read_to_string failed
Unreadable == [readable |-> FALSE, lines |-> <<>>]
Readable(ls) == [readable |-> TRUE, lines |-> ls]

\* the for loop over content.lines(): fields [name, exec] of Options
RECURSIVE scan_lines(_, _, _, _)
scan_lines(ls, i, name, exec) ==
    IF i > Len(ls) THEN [name |-> name, exec |-> exec]
    ELSE
        LET line == ls[i]
            name1 == IF starts_with(line, NamePrefix)
                     THEN Some(trim(slice_from(line, 5)))
                     ELSE name
            exec1 == IF ~starts_with(line, NamePrefix) /\ starts_with(line, ExecPrefix)
                     THEN Some(trim(slice_from(line, 5)))
                     ELSE exec
        IN  IF is_some(name1) /\ is_some(exec1)
            THEN [name |-> name1, exec |-> exec1]
            ELSE scan_lines(ls, i + 1, name1, exec1)

\* the fold over placeholders followed by trim
RECURSIVE strip_placeholders(_, _)
strip_placeholders(acc, i) ==
    IF i > Len(placeholders) THEN acc
    ELSE strip_placeholders(replace(acc, placeholders[i]), i + 1)

clean_exec(exec) == trim(strip_placeholders(exec, 1))

\* parse_desktop_entry with a missing field defaulted to the empty string
\* instead of name.zip(exec)
parse_desktop_entry_defaulted(file) ==
    IF ~file.readable THEN None
    ELSE
        LET r == scan_lines(file.lines, 1, None, None)
            name == IF is_some(r.name) THEN unwrap(r.name) ELSE <<>>
            exec == IF is_some(r.exec) THEN unwrap(r.exec) ELSE <<>>
        IN  IF is_some(r.name) \/ is_some(r.exec)
            THEN Some(<<name, clean_exec(exec)>>)
            ELSE None

parse_desktop_entry(file) ==
    IF ~file.readable THEN None
    ELSE
        LET r == scan_lines(file.lines, 1, None, None)
        IN  IF is_some(r.name) /\ is_some(r.exec)
            THEN Some(<<unwrap(r.name), clean_exec(unwrap(r.exec))>>)
            ELSE None

\* get_desktop_entries().par_iter().filter_map(parse_desktop_entry).collect():
\* an order-preserving collect of the entries that parsed
RECURSIVE collect_applications(_)
collect_applications(fs) ==
    IF Len(fs) = 0 THEN <<>>
    ELSE parse_desktop_entry(Head(fs)) \o collect_applications(Tail(fs))

(***************************************************************************)
(* search_applications                                                     *)
(***************************************************************************)
\* the iterator chain filter / filter_map / take, pulled one element at a
\* time: seen is the HashSet unique_results, out the collected Vec
RECURSIVE search_iter(_, _, _, _, _, _)
search_iter(q, apps, max_results, i, seen, out) ==
    IF Len(out) >= max_results \/ i > Len(apps) THEN out
    ELSE
        LET name == apps[i][1]
        IN  IF contains(to_lowercase(name), q) /\ name \notin seen
            THEN search_iter(q, apps, max_results, i + 1, seen \cup {name},
                             Append(out, apps[i]))
            ELSE search_iter(q, apps, max_results, i + 1, seen, out)

\* search_applications without .take(max_results)
search_applications_uncapped(q, apps, max_results) ==
    search_iter(to_lowercase(q), apps, Len(apps), 1, {}, <<>>)

\* search_applications without query.to_lowercase()
search_applications_raw_query(q, apps, max_results) ==
    search_iter(q, apps, max_results, 1, {}, <<>>)

search_applications(q, apps, max_results) ==
    search_iter(to_lowercase(q), apps, max_results, 1, {}, <<>>)

(***************************************************************************)
(* Recent-apps seeding (AppLauncher::default)                              *)
(***************************************************************************)
\* applications.iter().find(|(name, _)| name == app_name).cloned()
find_by_name(apps, app_name) ==
    IF \E i \in 1..Len(apps) : apps[i][1] = app_name
    THEN Some(apps[CHOOSE i \in 1..Len(apps) :
                     /\ apps[i][1] = app_name
                     /\ \A j \in 1..(i - 1) : apps[j][1] # app_name])
    ELSE None

\* recent_apps.iter().filter_map(find).take(max).collect()
RECURSIVE seed_iter(_, _, _, _, _)
seed_iter(recent, apps, max_results, i, out) ==
    IF Len(out) >= max_results \/ i > Len(recent) THEN out
    ELSE seed_iter(recent, apps, max_results, i + 1,
                   out \o find_by_name(apps, recent[i]))

\* seed_results without .take(config.max_search_results)
seed_results_uncapped(cfg, recent, apps) ==
    IF cfg.enable_recent_apps
    THEN seed_iter(recent, apps, Len(recent), 1, <<>>)
    ELSE <<>>

seed_results(cfg, recent, apps) ==
    IF cfg.enable_recent_apps
    THEN seed_iter(recent, apps, cfg.max_search_results, 1, <<>>)
    ELSE <<>>

(***************************************************************************)
(* launch_app (the free function)                                          *)
(***************************************************************************)
Effect(op, arg, ok) == [op |-> op, arg |-> arg, ok |-> ok]

RECURSIVE remove_name(_, _)
remove_name(names, n) ==
    IF Len(names) = 0 THEN <<>>
    ELSE IF Head(names) = n THEN remove_name(Tail(names), n)
    ELSE <<Head(names)>> \o remove_name(Tail(names), n)

\* crate::cache::update_cache: with tracking enabled the name is promoted to
\* the front of the list and the list persisted, which can fail; with
\* tracking disabled nothing is done
update_cache(app_name, enable_recent_apps, recent, cache_ok) ==
    IF ~enable_recent_apps THEN [ok |-> TRUE, recent_apps |-> recent]
    ELSE IF cache_ok
    THEN [ok |-> TRUE, recent_apps |-> <<app_name>> \o remove_name(recent, app_name)]
    ELSE [ok |-> FALSE, recent_apps |-> recent]

\* launch_app with the Result of update_cache dropped instead of propagated
launch_app_ignoring_cache(app_name, exec_cmd, enable_recent_apps, recent, env) ==
    LET u == update_cache(app_name, enable_recent_apps, recent, env.cache_ok)
        e2 == <<Effect("update_cache", app_name, u.ok),
                Effect("home_dir", <<>>, env.home_ok)>>
    IN  IF ~env.home_ok
        THEN [ok |-> FALSE, effects |-> e2, recent_apps |-> u.recent_apps]
        ELSE [ok |-> env.spawn_ok,
              effects |-> Append(e2, Effect("spawn", exec_cmd, env.spawn_ok)),
              recent_apps |-> u.recent_apps]

\* launch_app that restores the recent-apps list when the launch fails after
\* the cache update
launch_app_rolling_back(app_name, exec_cmd, enable_recent_apps, recent, env) ==
    LET u == update_cache(app_name, enable_recent_apps, recent, env.cache_ok)
        e1 == <<Effect("update_cache", app_name, u.ok)>>
    IN  IF ~u.ok
        THEN [ok |-> FALSE, effects |-> e1, recent_apps |-> recent]
        ELSE
            LET e2 == Append(e1, Effect("home_dir", <<>>, env.home_ok))
            IN  IF ~env.home_ok
                THEN [ok |-> FALSE, effects |-> e2, recent_apps |-> recent]
                ELSE [ok |-> env.spawn_ok,
                      effects |-> Append(e2, Effect("spawn", exec_cmd, env.spawn_ok)),
                      recent_apps |-> IF env.spawn_ok THEN u.recent_apps ELSE recent]

\* launch_app that builds the Command but never calls spawn()
launch_app_without_spawn(app_name, exec_cmd, enable_recent_apps, recent, env) ==
    LET u == update_cache(app_name, enable_recent_apps, recent, env.cache_ok)
        e1 == <<Effect("update_cache", app_name, u.ok)>>
    IN  IF ~u.ok
        THEN [ok |-> FALSE, effects |-> e1, recent_apps |-> u.recent_apps]
        ELSE [ok |-> env.home_ok,
              effects |-> Append(e1, Effect("home_dir", <<>>, env.home_ok)),
              recent_apps |-> u.recent_apps]

\* env: what the environment answers, [cache_ok, home_ok, spawn_ok]
launch_app(app_name, exec_cmd, enable_recent_apps, recent, env) ==
    LET u == update_cache(app_name, enable_recent_apps, recent, env.cache_ok)
        e1 == <<Effect("update_cache", app_name, u.ok)>>
    IN  IF ~u.ok
        THEN [ok |-> FALSE, effects |-> e1, recent_apps |-> u.recent_apps]
        ELSE
            LET e2 == Append(e1, Effect("home_dir", <<>>, env.home_ok))
            IN  IF ~env.home_ok
                THEN [ok |-> FALSE, effects |-> e2, recent_apps |-> u.recent_apps]
                ELSE [ok |-> env.spawn_ok,
                      effects |-> Append(e2, Effect("spawn", exec_cmd, env.spawn_ok)),
                      recent_apps |-> u.recent_apps]

\* the caller's handling of the Result: eprintln on Err, is_quit on Ok
launch_and_report(entry, cfg, recent, env) ==
    LET r == launch_app(entry[1], entry[2], cfg.enable_recent_apps, recent, env)
    IN  [ok |-> r.ok,
         effects |-> IF r.ok THEN r.effects
                     ELSE Append(r.effects, Effect("eprintln", <<>>, TRUE)),
         recent_apps |-> r.recent_apps]

(***************************************************************************)
(* Inputs                                                                  *)
(***************************************************************************)
\* strings over chars of length exactly n, and of length at most n
StrsOfLen(chars, n) == [1..n -> chars]
StrsUpTo(chars, n) == UNION {StrsOfLen(chars, k) : k \in 0..n}

\* sequences over S of length at most n
SeqsUpTo(S, n) == UNION {[1..k -> S] : k \in 0..n}

\* characters after the prefix of a descriptor line
ParseChars == {"%", "f", " "}
\* a line is a Name= line, an Exec= line or a line the parser ignores
IgnoredLine == <<"#">>
LinePrefixes == {NamePrefix, ExecPrefix, IgnoredLine}

\* lens[1] + ... + lens[n]
RECURSIVE SumTo(_, _)
SumTo(lens, n) == IF n = 0 THEN 0 ELSE lens[n] + SumTo(lens, n - 1)

\* the descriptor of n lines whose i-th line is the prefix ps[i] followed by
\* the next lens[i] characters of text
LinesFrom(n, ps, text, lens) ==
    [i \in 1..n |->
        ps[i] \o SubSeq(text, SumTo(lens, i - 1) + 1, SumTo(lens, i))]

\* the readable descriptors of at most MaxLines lines whose Name= and Exec=
\* values hold at most MaxChars characters in all
IsParseFile(file) ==
    \E n \in 1..MaxLines :
        \E lens \in [1..n -> 0..MaxChars] :
            /\ SumTo(lens, n) <= MaxChars
            /\ \E ps \in [1..n -> LinePrefixes] :
                 /\ \A i \in 1..n : ps[i] = IgnoredLine => lens[i] = 0
                 /\ \E text \in StrsOfLen(ParseChars, SumTo(lens, n)) :
                        file = Readable(LinesFrom(n, ps, text, lens))

\* names, commands and queries given to the search engine
SearchNames == {<<>>, <<"a">>, <<"A">>, <<"A", "b">>, <<"b", "a">>}
SearchCmds == {<<"x">>, <<"y">>}
SearchQueries == {<<>>, <<"a">>, <<"A">>, <<"B">>, <<"a", "b">>, <<"b", "b">>}

\* the descriptor files found at startup
FilePool ==
    { Readable(<<NamePrefix \o <<"P","a">>, ExecPrefix \o <<"x"," ","%","f">> >>),
      Readable(<<ExecPrefix \o <<"y">>, <<"#">>, NamePrefix \o <<"p","a">> >>),
      Readable(<<NamePrefix \o <<"P","a">>, ExecPrefix \o <<"z">> >>),
      Readable(<<ExecPrefix \o <<"x">> >>) }

\* the descriptor files found at the startup of a session
SessionFilePool ==
    { Readable(<<NamePrefix \o <<"P","a">>, ExecPrefix \o <<"x"," ","%","f">> >>),
      Readable(<<ExecPrefix \o <<"y">>, <<"#">>, NamePrefix \o <<"p","a">> >>),
      Readable(<<ExecPrefix \o <<"x">> >>) }

RecentNames == {<<"P","a">>, <<"p","a">>, <<"G","h">>}
SessionRecentNames == {<<"P","a">>, <<"G","h">>}

Configs ==
    [enable_recent_apps : BOOLEAN, enable_power_options : BOOLEAN,
     max_search_results : 0..MaxResults]

\* input tokens of handle_input and names given to AppLauncher::launch_app
ESC == <<"E","S","C">>
ENTER == <<"E","N","T","E","R">>
Inputs == {ESC, ENTER, <<"P">>, <<"R">>, <<"L">>, <<"p","A">>, <<>>}
SelectNames == {<<"p","a">>}

\* the answers of the environment to a launch: the cache update fails, the
\* home directory is not found, the spawn fails, or all three succeed (an
\* answer to a call that is never made changes nothing)
Envs ==
    { [cache_ok |-> FALSE, home_ok |-> TRUE, spawn_ok |-> TRUE],
      [cache_ok |-> TRUE, home_ok |-> FALSE, spawn_ok |-> TRUE],
      [cache_ok |-> TRUE, home_ok |-> TRUE, spawn_ok |-> FALSE],
      [cache_ok |-> TRUE, home_ok |-> TRUE, spawn_ok |-> TRUE] }
AllOk == [cache_ok |-> TRUE, home_ok |-> TRUE, spawn_ok |-> TRUE]

NoConfig == [enable_recent_apps |-> FALSE, enable_power_options |-> FALSE,
             max_search_results |-> 0]
NoInput == [handler |-> "none", arg |-> <<>>]
NoHistory == [seed |-> <<>>, text_handled |-> FALSE]

(***************************************************************************)
(* SpecParse: parse_desktop_entry on one descriptor, and the index it gives *)
(***************************************************************************)
InitParse ==
    /\ phase = "parse_input"
    /\ \/ content \in {Unreadable, Readable(<<>>)}
       \/ IsParseFile(content)
    /\ parsed = None
    /\ files = <<>>
    /\ recent_apps = <<>>
    /\ config = NoConfig
    /\ applications = <<>>
    /\ query = <<>>
    /\ search_results = <<>>
    /\ is_quit = FALSE
    /\ last_input = NoInput
    /\ effects = <<>>
    /\ launch_result = "none"
    /\ history = NoHistory

ParseFile ==
    /\ phase = "parse_input"
    /\ phase' = "parsed"
    /\ parsed' = parse_desktop_entry(content)
    /\ applications' = collect_applications(<<content>>)
    /\ UNCHANGED <<content, files, recent_apps, config, query, search_results, is_quit, history,
                   last_input, effects, launch_result>>

NextParse == ParseFile

SpecParse == InitParse /\ [][NextParse]_vars

(***************************************************************************)
(* SpecSearch: search_applications on an index, a query and a cap          *)
(***************************************************************************)
InitSearch ==
    /\ phase = "search_input"
    /\ content = Unreadable
    /\ parsed = None
    /\ files = <<>>
    /\ recent_apps = <<>>
    /\ config \in {c \in Configs : ~c.enable_recent_apps /\ ~c.enable_power_options}
    /\ applications \in SeqsUpTo(SearchNames \X SearchCmds, MaxApps)
    /\ query \in SearchQueries
    /\ search_results = <<>>
    /\ is_quit = FALSE
    /\ last_input = NoInput
    /\ effects = <<>>
    /\ launch_result = "none"
    /\ history = NoHistory

Search ==
    /\ phase = "search_input"
    /\ phase' = "searched"
    /\ search_results' = search_applications(query, applications, config.max_search_results)
    /\ UNCHANGED <<content, parsed, files, recent_apps, config, applications, query,
                   history, is_quit, last_input, effects, launch_result>>

NextSearch == Search

SpecSearch == InitSearch /\ [][NextSearch]_vars

(***************************************************************************)
(* Spec: the session controller AppLauncher                                *)
(***************************************************************************)
Init ==
    /\ phase = "boot"
    /\ content = Unreadable
    /\ parsed = None
    /\ files \in SeqsUpTo(SessionFilePool, MaxFiles)
    /\ recent_apps \in SeqsUpTo(SessionRecentNames, MaxSessionRecent)
    /\ config \in Configs
    /\ applications = <<>>
    /\ query = <<>>
    /\ search_results = <<>>
    /\ is_quit = FALSE
    /\ last_input = NoInput
    /\ effects = <<>>
    /\ launch_result = "none"
    /\ history = NoHistory

\* AppLauncher::default
Default ==
    /\ phase = "boot"
    /\ phase' = "browsing"
    /\ applications' = collect_applications(files)
    /\ files' = <<>>
    /\ search_results' = seed_results(config, recent_apps, applications')
    /\ query' = <<>>
    /\ is_quit' = FALSE
    /\ last_input' = [handler |-> "default", arg |-> <<>>]
    /\ history' = [seed |-> search_results', text_handled |-> FALSE]
    /\ UNCHANGED <<content, parsed, recent_apps, config, effects, launch_result>>

\* LaunchEntry that sets is_quit whatever the Result is
LaunchEntry_always_quit(entry, env) ==
    LET r == launch_and_report(entry, config, recent_apps, env)
    IN  /\ recent_apps' = r.recent_apps
        /\ effects' = r.effects
        /\ launch_result' = IF r.ok THEN "ok" ELSE "err"
        /\ is_quit' = TRUE

\* the body shared by launch_first_result and AppInterface::launch_app once
\* an entry was found: call the free launch_app and handle its Result
LaunchEntry(entry, env) ==
    LET r == launch_and_report(entry, config, recent_apps, env)
    IN  /\ recent_apps' = r.recent_apps
        /\ effects' = r.effects
        /\ launch_result' = IF r.ok THEN "ok" ELSE "err"
        /\ is_quit' = IF r.ok THEN TRUE ELSE is_quit

NoLaunch ==
    /\ effects' = <<>>
    /\ launch_result' = "none"
    /\ UNCHANGED <<recent_apps, is_quit>>

\* launch_first_result that reports an error when there is no result
launch_first_result_reporting_none(env) ==
    IF Len(search_results) > 0
    THEN LaunchEntry(search_results[1], env)
    ELSE /\ effects' = <<Effect("eprintln", <<>>, TRUE)>>
         /\ launch_result' = "none"
         /\ UNCHANGED <<recent_apps, is_quit>>

\* launch_first_result taking search_results.last() instead of first()
launch_last_result(env) ==
    IF Len(search_results) > 0
    THEN LaunchEntry(search_results[Len(search_results)], env)
    ELSE NoLaunch

\* AppLauncher::launch_first_result
launch_first_result(env) ==
    IF Len(search_results) > 0
    THEN LaunchEntry(search_results[1], env)
    ELSE NoLaunch

is_power_token(input) == input \in {<<"P">>, <<"R">>, <<"L">>}

power_action(input) ==
    IF input = <<"P">> THEN "power_off"
    ELSE IF input = <<"R">> THEN "restart"
    ELSE "logout"

\* handle_input with one slip, named by bug:
\*   "stale_query": the search runs on the query held before the assignment
\*   "esc_clears_query": ESC also empties the query
\*   "ungated_power": the power arms lack the enable_power_options guard
\*   "enter_resets_query": ENTER also empties the query
handle_input_variant(input, env, bug) ==
    /\ phase = "browsing"
    /\ last_input' = [handler |-> "handle_input", arg |-> input]
    /\ IF input = ESC
       THEN /\ is_quit' = TRUE
            /\ effects' = <<>>
            /\ launch_result' = "none"
            /\ query' = IF bug = "esc_clears_query" THEN <<>> ELSE query
            /\ UNCHANGED <<recent_apps, search_results, history>>
       ELSE IF input = ENTER
       THEN /\ launch_first_result(env)
            /\ query' = IF bug = "enter_resets_query" THEN <<>> ELSE query
            /\ UNCHANGED <<search_results, history>>
       ELSE IF is_power_token(input)
               /\ (config.enable_power_options \/ bug = "ungated_power")
       THEN /\ effects' = <<Effect(power_action(input), <<>>, TRUE)>>
            /\ launch_result' = "none"
            /\ UNCHANGED <<recent_apps, query, search_results, is_quit, history>>
       ELSE /\ query' = input
            /\ search_results' =
                   search_applications(IF bug = "stale_query" THEN query ELSE input,
                                       applications, config.max_search_results)
            /\ history' = [history EXCEPT !.text_handled = TRUE]
            /\ effects' = <<>>
            /\ launch_result' = "none"
            /\ UNCHANGED <<recent_apps, is_quit>>
    /\ UNCHANGED <<phase, content, parsed, files, config, applications>>

handle_input_stale_query(input, env) == handle_input_variant(input, env, "stale_query")
handle_input_esc_clears_query(input, env) ==
    handle_input_variant(input, env, "esc_clears_query")
handle_input_ungated_power(input, env) == handle_input_variant(input, env, "ungated_power")
handle_input_enter_resets_query(input, env) ==
    handle_input_variant(input, env, "enter_resets_query")

\* AppInterface::handle_input
handle_input(input, env) ==
    /\ phase = "browsing"
    /\ last_input' = [handler |-> "handle_input", arg |-> input]
    /\ IF input = ESC
       THEN /\ is_quit' = TRUE
            /\ effects' = <<>>
            /\ launch_result' = "none"
            /\ UNCHANGED <<recent_apps, query, search_results, history>>
       ELSE IF input = ENTER
       THEN /\ launch_first_result(env)
            /\ UNCHANGED <<query, search_results, history>>
       ELSE IF is_power_token(input) /\ config.enable_power_options
       THEN /\ effects' = <<Effect(power_action(input), <<>>, TRUE)>>
            /\ launch_result' = "none"
            /\ UNCHANGED <<recent_apps, query, search_results, is_quit, history>>
       ELSE /\ query' = input
            /\ search_results' =
                   search_applications(input, applications, config.max_search_results)
            /\ history' = [history EXCEPT !.text_handled = TRUE]
            /\ effects' = <<>>
            /\ launch_result' = "none"
            /\ UNCHANGED <<recent_apps, is_quit>>
    /\ UNCHANGED <<phase, content, parsed, files, config, applications>>

HandleInput ==
    \E input \in Inputs :
        \E env \in (IF input = ENTER THEN Envs ELSE {AllOk}) : handle_input(input, env)

\* find_result comparing the names without regard to case
find_result_ignoring_case(results, app_name) ==
    IF \E i \in 1..Len(results) : to_lowercase(results[i][1]) = to_lowercase(app_name)
    THEN Some(results[CHOOSE i \in 1..Len(results) :
                          /\ to_lowercase(results[i][1]) = to_lowercase(app_name)
                          /\ \A j \in 1..(i - 1) :
                                 to_lowercase(results[j][1]) # to_lowercase(app_name)])
    ELSE None

\* search_results.iter().find(|(name, _)| name == app_name)
find_result(results, app_name) == find_by_name(results, app_name)

\* AppInterface::launch_app
select_app(app_name, env) ==
    /\ phase = "browsing"
    /\ last_input' = [handler |-> "launch_app", arg |-> app_name]
    /\ IF is_some(find_result(search_results, app_name))
       THEN LaunchEntry(<<app_name, unwrap(find_result(search_results, app_name))[2]>>, env)
       ELSE NoLaunch
    /\ UNCHANGED <<phase, content, parsed, files, config, applications, query,
                   search_results, history>>

SelectApp == \E app_name \in SelectNames : \E env \in Envs : select_app(app_name, env)

\* AppInterface::update: exit(0) once is_quit is set, nothing otherwise
Update ==
    /\ phase = "browsing"
    /\ is_quit
    /\ phase' = "exited"
    /\ last_input' = [handler |-> "update", arg |-> <<>>]
    /\ effects' = <<Effect("exit", <<>>, TRUE)>>
    /\ launch_result' = "none"
    /\ UNCHANGED <<content, parsed, files, recent_apps, config, applications, query,
                   search_results, is_quit, history>>

Next == Default \/ HandleInput \/ SelectApp \/ Update

Spec == Init /\ [][Next]_vars

(***************************************************************************)
(* SpecSeed: AppLauncher::default on located files, a persisted            *)
(* recent-apps list and a configuration                                    *)
(***************************************************************************)
InitSeed ==
    /\ phase = "boot"
    /\ content = Unreadable
    /\ parsed = None
    /\ files \in SeqsUpTo(FilePool, MaxFiles)
    /\ recent_apps \in SeqsUpTo(RecentNames, MaxRecent)
    /\ config \in Configs
    /\ applications = <<>>
    /\ query = <<>>
    /\ search_results = <<>>
    /\ is_quit = FALSE
    /\ last_input = NoInput
    /\ effects = <<>>
    /\ launch_result = "none"
    /\ history = NoHistory

NextSeed == Default

SpecSeed == InitSeed /\ [][NextSeed]_vars

(***************************************************************************)
(* Properties                                                              *)
(***************************************************************************)
\* the n-th smallest element of a set of positions
NthOf(S, n) == CHOOSE i \in S : Cardinality({j \in S : j <= i}) = n

\* an entry matches a query iff its lowercased name contains the lowercased
\* query
Matches(entry, q) == contains(to_lowercase(entry[1]), to_lowercase(q))

\* C1: every entry returned by search_applications(q, I, k) has a lowercased
\* name containing lowercased q, no two returned entries share a name, and at
\* most k entries are returned.
C1_SearchSound ==
    phase = "searched" =>
        /\ \A i \in 1..Len(search_results) : Matches(search_results[i], query)
        /\ \A i, j \in 1..Len(search_results) :
               i # j => search_results[i][1] # search_results[j][1]
        /\ Len(search_results) <= config.max_search_results

\* a search that met the cap, a duplicate name and a query in another case
C1_Witness ==
    /\ phase = "searched"
    /\ query = <<"A">>
    /\ Len(applications) = 3
    /\ applications[1][1] = applications[2][1]
    /\ applications[1][1] = <<"b", "a">>
    /\ applications[3][1] = <<"A", "b">>
    /\ config.max_search_results = 2
    /\ Len(search_results) = 2

\* the positions of I kept by the search: matching entries that no earlier
\* matching entry shares the name of
KeptPositions(I, q) ==
    {i \in 1..Len(I) :
        /\ Matches(I[i], q)
        /\ ~\E j \in 1..(i - 1) : Matches(I[j], q) /\ I[j][1] = I[i][1]}

\* C2: search_applications(q, I, k) is exactly the first k, in index order,
\* of the matching entries of I with only the first kept among those that
\* share a name.
C2_SearchExact ==
    phase = "searched" =>
        LET kept == KeptPositions(applications, query)
        IN  /\ Len(search_results) = Min(config.max_search_results, Cardinality(kept))
            /\ \A n \in 1..Len(search_results) :
                   search_results[n] = applications[NthOf(kept, n)]

\* a search whose kept entries are the first and the third of the index, the
\* second sharing the first's name
C2_Witness ==
    /\ phase = "searched"
    /\ query = <<"B">>
    /\ Len(applications) = 3
    /\ applications[1] = <<<<"A", "b">>, <<"x">>>>
    /\ applications[2] = <<<<"A", "b">>, <<"y">>>>
    /\ applications[3] = <<<<"b", "a">>, <<"y">>>>
    /\ search_results = <<applications[1], applications[3]>>

\* the lines of the parsed descriptor, and the first of them with a prefix
HasLine(prefix) ==
    content.readable /\ \E i \in 1..Len(content.lines) : starts_with(content.lines[i], prefix)

FirstValue(prefix) ==
    LET ls == content.lines
        i == CHOOSE k \in 1..Len(ls) :
                 /\ starts_with(ls[k], prefix)
                 /\ \A j \in 1..(k - 1) : ~starts_with(ls[j], prefix)
    IN  trim(slice_from(ls[i], 5))

\* C3: the parsed name is the value of the first line beginning with Name=
\* and the parsed command is derived from the first line beginning with
\* Exec=, whatever other Name= or Exec= lines the descriptor has.
C3_FirstOccurrenceWins ==
    (phase = "parsed" /\ is_some(parsed)) =>
        /\ unwrap(parsed)[1] = FirstValue(NamePrefix)
        /\ unwrap(parsed)[2] = clean_exec(FirstValue(ExecPrefix))

\* C4: a descriptor with a Name= line and an Exec= line yields exactly one
\* entry, whose command contains none of the seven placeholder tokens.
C4_NoPlaceholderLeft ==
    (phase = "parsed" /\ HasLine(NamePrefix) /\ HasLine(ExecPrefix)) =>
        /\ is_some(parsed)
        /\ Len(applications) = 1
        /\ \A k \in 1..Len(placeholders) : ~contains(unwrap(parsed)[2], placeholders[k])

\* C5: every entry of the application index has a non-empty name and a
\* non-empty command.
C5_IndexFieldsNonEmpty ==
    \A i \in 1..Len(applications) :
        applications[i][1] # <<>> /\ applications[i][2] # <<>>

\* C6: a descriptor with no line beginning with Name= or no line beginning
\* with Exec= parses to None and contributes nothing to the index.
C6_MissingFieldNoEntry ==
    (phase = "parsed" /\ content.readable
        /\ (~HasLine(NamePrefix) \/ ~HasLine(ExecPrefix))) =>
        /\ parsed = None
        /\ applications = <<>>

\* a three-line descriptor with Name= lines and no Exec= line was parsed
C6_Witness ==
    /\ phase = "parsed"
    /\ content.readable
    /\ Len(content.lines) = 3
    /\ HasLine(NamePrefix)
    /\ ~HasLine(ExecPrefix)
    /\ FirstValue(NamePrefix) # <<>>
    /\ parsed = None

\* the positions of the recent names that have an index entry
ResolvedPositions(recent, apps) ==
    {i \in 1..Len(recent) : \E j \in 1..Len(apps) : apps[j][1] = recent[i]}

\* the first index entry whose name is exactly name
FirstEntryNamed(apps, name) ==
    apps[CHOOSE j \in 1..Len(apps) :
             /\ apps[j][1] = name
             /\ \A k \in 1..(j - 1) : apps[k][1] # name]

\* C7: with tracking enabled the initial result list is the first
\* max_search_results of the recent names, in persisted order, each replaced
\* by the first index entry of that exact name and names without an entry
\* skipped; with tracking disabled it is empty.
C7_SeededResults ==
    last_input.handler = "default" =>
        IF config.enable_recent_apps
        THEN LET resolved == ResolvedPositions(recent_apps, applications)
             IN  /\ Len(search_results) =
                        Min(config.max_search_results, Cardinality(resolved))
                 /\ \A n \in 1..Len(search_results) :
                        search_results[n] =
                            FirstEntryNamed(applications, recent_apps[NthOf(resolved, n)])
        ELSE search_results = <<>>

\* a startup where a name without an entry is skipped, the next one resolves
\* to the first of two entries of its name and the cap cuts the list
C7_Witness ==
    /\ last_input.handler = "default"
    /\ config.enable_recent_apps
    /\ config.max_search_results = 1
    /\ recent_apps = <<<<"G","h">>, <<"P","a">>>>
    /\ Len(applications) = 2
    /\ applications[1][1] = <<"P","a">>
    /\ applications[2][1] = <<"P","a">>
    /\ applications[1][2] # applications[2][2]
    /\ search_results = <<applications[1]>>

HasEffect(op, ok) == \E i \in 1..Len(effects) : effects[i].op = op /\ effects[i].ok = ok
Attempted(op) == \E i \in 1..Len(effects) : effects[i].op = op

\* C8: in launch the cache update comes before the spawn, and when the cache
\* update fails no process is spawned and launch returns an error.
C8_CacheFailureAbortsLaunch ==
    /\ \A j \in 1..Len(effects) :
           effects[j].op = "spawn" =>
               \E i \in 1..(j - 1) : effects[i].op = "update_cache" /\ effects[i].ok
    /\ HasEffect("update_cache", FALSE) =>
           ~Attempted("spawn") /\ launch_result = "err"

\* a launch with tracking enabled whose cache update failed
C8_Witness ==
    /\ config.enable_recent_apps
    /\ HasEffect("update_cache", FALSE)
    /\ launch_result = "err"
    /\ ~is_quit

\* C9 as stated: whenever the cache update of a launch returns success, a
\* spawn of the command is attempted.
C9_SpawnAfterCacheSuccess ==
    HasEffect("update_cache", TRUE) => Attempted("spawn")

\* C9 amended: whenever the cache update returns success and the home
\* directory is resolved, a spawn is attempted; when the home directory is not
\* resolved no spawn is attempted and launch returns an error.
C9_SpawnAfterCacheAndHome ==
    /\ (HasEffect("update_cache", TRUE) /\ HasEffect("home_dir", TRUE)) =>
           Attempted("spawn")
    /\ HasEffect("home_dir", FALSE) =>
           ~Attempted("spawn") /\ launch_result = "err"

\* a launch whose cache update and home directory succeeded and whose spawn
\* was attempted and failed
C9_Witness ==
    /\ HasEffect("update_cache", TRUE)
    /\ HasEffect("home_dir", TRUE)
    /\ HasEffect("spawn", FALSE)
    /\ launch_result = "err"

EnterInput == [handler |-> "handle_input", arg |-> ENTER]

\* C10: on ENTER with a non-empty result list the launch attempted is of the
\* first entry of the result list, by its name and its command, and a launch
\* that succeeds sets the quit flag.
C10_EnterLaunchesFirst ==
    [][(last_input' = EnterInput /\ Len(search_results) > 0) =>
          /\ Len(effects') > 0
          /\ effects'[1] = Effect("update_cache", search_results[1][1], effects'[1].ok)
          /\ \A j \in 1..Len(effects') :
                 effects'[j].op = "spawn" => effects'[j].arg = search_results[1][2]
          /\ launch_result' # "none"
          /\ launch_result' = "ok" => (is_quit' /\ HasEffect("spawn", TRUE)')]_vars

\* ENTER on a list of two different entries launched the first and quit
C10_Witness ==
    /\ last_input = EnterInput
    /\ Len(search_results) = 2
    /\ search_results[1] # search_results[2]
    /\ effects[1].arg = search_results[1][1]
    /\ HasEffect("spawn", TRUE)
    /\ launch_result = "ok"
    /\ is_quit

\* the step is a call of handler h
Handled(h) == last_input'.handler = h
TextInput(arg) ==
    /\ arg # ESC
    /\ arg # ENTER
    /\ ~(arg \in {<<"P">>, <<"R">>, <<"L">>} /\ config.enable_power_options)

\* C11: a launch attempted in Browsing that fails, at the cache update, at
\* the home directory or at the spawn, from ENTER or from a selection, leaves
\* the session in Browsing with the query and the result list unchanged.
C11_FailedLaunchKeepsBrowsing ==
    [][(launch_result' = "err" /\ ~is_quit) =>
          /\ ~is_quit'
          /\ query' = query
          /\ search_results' = search_results]_vars

\* a selection whose spawn failed, after a query was typed
C11_Witness ==
    /\ last_input.handler = "launch_app"
    /\ launch_result = "err"
    /\ HasEffect("spawn", FALSE)
    /\ HasEffect("eprintln", TRUE)
    /\ ~is_quit
    /\ query = <<"p", "A">>
    /\ Len(search_results) = 2

\* C12: ENTER on an empty result list launches nothing, reports no error and
\* leaves the query, the result list and the quit flag unchanged.
C12_EnterOnEmptyIsNoOp ==
    [][(last_input' = EnterInput /\ Len(search_results) = 0) =>
          /\ effects' = <<>>
          /\ launch_result' = "none"
          /\ UNCHANGED <<query, search_results, is_quit, recent_apps>>]_vars

\* ENTER was handled on the empty result list of a query that matches nothing
C12_Witness ==
    /\ last_input = EnterInput
    /\ query = <<"R">>
    /\ search_results = <<>>
    /\ Len(applications) > 0
    /\ effects = <<>>
    /\ ~is_quit

\* C13: a textual input that is no control token becomes the query, the
\* result list becomes search_applications(input, index, max_search_results),
\* and the index and the quit flag are unchanged.
C13_TextInputSearches ==
    [][(Handled("handle_input") /\ TextInput(last_input'.arg)) =>
          /\ query' = last_input'.arg
          /\ search_results' =
                 search_applications(last_input'.arg, applications,
                                     config.max_search_results)
          /\ UNCHANGED <<applications, is_quit>>]_vars

\* a text was typed over an earlier query that matched nothing
C13_Witness ==
    /\ last_input = [handler |-> "handle_input", arg |-> <<"p", "A">>]
    /\ query = <<"p", "A">>
    /\ Len(search_results) = 2
    /\ search_results[1][1] = <<"P", "a">>
    /\ search_results[2][1] = <<"p", "a">>

\* C14: once the quit flag is set, no later event clears it, changes the
\* query or the result list, or has any effect other than the exit.
C14_QuittingIsTerminal ==
    [][is_quit =>
          /\ is_quit'
          /\ query' = query
          /\ search_results' = search_results
          /\ \A i \in 1..Len(effects') : effects'[i].op = "exit"]_vars

EscInput == [handler |-> "handle_input", arg |-> ESC]

\* C15: ESC sets the quit flag and nothing else: the query, the result list,
\* the index and the recent-apps cache are unchanged and nothing is spawned.
C15_EscOnlyQuits ==
    [][last_input' = EscInput =>
          /\ is_quit'
          /\ effects' = <<>>
          /\ UNCHANGED <<query, search_results, applications, recent_apps>>]_vars

\* ESC was handled with a query typed and results shown
C15_Witness ==
    /\ last_input = EscInput
    /\ is_quit
    /\ query = <<"p", "A">>
    /\ Len(search_results) > 0
    /\ effects = <<>>

PowerOps == {"power_off", "restart", "logout"}
PowerOpOf(arg) ==
    CASE arg = <<"P">> -> "power_off"
      [] arg = <<"R">> -> "restart"
      [] arg = <<"L">> -> "logout"

\* C16: P, R and L invoke the power action only when power options are
\* enabled, and then leave the quit flag, the query and the result list
\* unchanged; when disabled no power action is invoked and the token is
\* handled as query text.
C16_PowerTokensGated ==
    [][/\ (\E i \in 1..Len(effects') : effects'[i].op \in PowerOps) =>
              config.enable_power_options
       /\ (Handled("handle_input") /\ last_input'.arg \in {<<"P">>, <<"R">>, <<"L">>}) =>
              IF config.enable_power_options
              THEN /\ effects' = <<Effect(PowerOpOf(last_input'.arg), <<>>, TRUE)>>
                   /\ UNCHANGED <<is_quit, query, search_results>>
              ELSE /\ effects' = <<>>
                   /\ query' = last_input'.arg
                   /\ search_results' =
                          search_applications(last_input'.arg, applications,
                                              config.max_search_results)]_vars

\* R was handled as a restart, with a query typed and results shown
C16_Witness ==
    /\ last_input = [handler |-> "handle_input", arg |-> <<"R">>]
    /\ config.enable_power_options
    /\ effects = <<Effect("restart", <<>>, TRUE)>>
    /\ query = <<"p", "A">>
    /\ Len(search_results) > 0
    /\ ~is_quit

\* C17: selecting a name n launches the entry of the result list whose name
\* is exactly n, with that entry's command, and a launch that succeeds sets
\* the quit flag; when no entry of the result list has the name n nothing is
\* launched and the session is unchanged.
C17_SelectionLaunchesNamed ==
    [][Handled("launch_app") =>
          LET n == last_input'.arg
          IN  IF \E i \in 1..Len(search_results) : search_results[i][1] = n
              THEN /\ Len(effects') > 0
                   /\ effects'[1] = Effect("update_cache", n, effects'[1].ok)
                   /\ \A j \in 1..Len(effects') :
                          effects'[j].op = "spawn" =>
                              \E i \in 1..Len(search_results) :
                                  search_results[i] = <<n, effects'[j].arg>>
                   /\ launch_result' # "none"
                   /\ launch_result' = "ok" => (is_quit' /\ HasEffect("spawn", TRUE)')
              ELSE /\ effects' = <<>>
                   /\ launch_result' = "none"
                   /\ UNCHANGED <<query, search_results, is_quit, recent_apps,
                                  applications>>]_vars

\* the second entry of the result list was selected and launched, the first
\* differing from it only by case
C17_Witness ==
    /\ last_input = [handler |-> "launch_app", arg |-> <<"p", "a">>]
    /\ Len(search_results) = 2
    /\ search_results[1][1] = <<"P", "a">>
    /\ search_results[2] = <<<<"p", "a">>, <<"y">>>>
    /\ HasEffect("spawn", TRUE)
    /\ effects[3].arg = <<"y">>
    /\ launch_result = "ok"
    /\ is_quit

\* C18: the result list never holds more than max_search_results entries,
\* seeded or searched.
C18_ResultsCapped ==
    Len(search_results) <= config.max_search_results

\* a search cut by the cap: two entries of different names match, one is shown
C18_Witness ==
    /\ phase = "browsing"
    /\ query = <<"p", "A">>
    /\ config.max_search_results = 1
    /\ Len(applications) = 2
    /\ applications[1][1] # applications[2][1]
    /\ Len(search_results) = 1

\* C19: with tracking enabled, a launch whose cache update succeeded and whose
\* home-directory resolution or spawn failed leaves the name in the
\* recent-apps cache and the quit flag as it was.
C19_CacheRecordNotRolledBack ==
    [][(config.enable_recent_apps /\ launch_result' = "err"
            /\ HasEffect("update_cache", TRUE)') =>
          /\ \E i \in 1..Len(recent_apps') : recent_apps'[i] = effects'[1].arg
          /\ is_quit' = is_quit]_vars

\* a name that was not in the persisted list is recorded although its only
\* launch failed at the spawn and the session never quit
C19_Witness ==
    /\ config.enable_recent_apps
    /\ launch_result = "err"
    /\ HasEffect("spawn", FALSE)
    /\ effects[1].arg = <<"p", "a">>
    /\ Len(recent_apps) > 0
    /\ recent_apps[1] = <<"p", "a">>
    /\ ~is_quit

\* C20: the result list is the startup seed, with the empty query, as long as
\* no text has been handled, or else the search of the current query; and
\* each of its entries is an entry of the index.
C20_ResultsFollowQuery ==
    phase \in {"browsing", "exited"} =>
        /\ \/ /\ ~history.text_handled
              /\ query = <<>>
              /\ search_results = history.seed
           \/ search_results =
                  search_applications(query, applications, config.max_search_results)
        /\ \A i \in 1..Len(search_results) :
               \E j \in 1..Len(applications) : search_results[i] = applications[j]

\* the query was emptied again and the results differ from the seed, after a
\* failed ENTER
C20_Witness ==
    /\ last_input = EnterInput
    /\ launch_result = "err"
    /\ history.text_handled
    /\ query = <<>>
    /\ search_results # history.seed
    /\ Len(search_results) = 2

====
